---- MODULE Spec2Model ----
(***************************************************************************)
(* Coroutine locks of qtnetworkng (src/src/locks.cpp): Semaphore / Lock,   *)
(* RLock, Condition, Event, ThreadEvent, on top of a cooperative event     *)
(* loop.  A coroutine runs until it yields to the event-loop coroutine;    *)
(* the event loop runs deferred callbacks (callLater) one at a time and a  *)
(* callback that resumes a coroutine is suspended inside waiter->yield()   *)
(* until some coroutine yields back to the event loop.                     *)
(*                                                                         *)
(* The program state is kept in the VARIABLES; the bodies of the C++       *)
(* functions are operators from a heap record (H) to a heap record, so     *)
(* that a function that calls others is the composition of their           *)
(* operators, and every action commits the heap its handler leaves.        *)
(***************************************************************************)
EXTENDS Integers, Sequences, FiniteSets, TLC

\* ------------------------------------------------------------- bounds
NumCoroutines == 3
MaxInit == 2
MaxLocks == 2
NumLoops == 2
NumOsWaiters == 1
NumCoWaiters == 2
MaxDepth == 3
NumConds == 3
MaxLinks == 3

\* ---------------------------------------------------------- constants
INT_MAX == 2147483647
EventLoop == 0
MainSem == 0

Coroutines == 1..NumCoroutines
Loops == 1..NumLoops
SemIds == 0..MaxLocks
CondIds == 1..NumConds
EventIds == CondIds
OsWaiters == (NumCoroutines + 1)..(NumCoroutines + NumOsWaiters)
Setter == NumCoroutines + NumOsWaiters + 1
CoWaiters == {c \in Coroutines : c <= NumCoWaiters}
Waiters == CoWaiters \cup OsWaiters
Threads == Waiters \cup {Setter}
UB == {"benign", "crash"}
NotifyValues == 0..NumCoroutines
ReleaseValues == {-1, 0, 1, 2, INT_MAX}
AcquireValues == 0..(MaxInit + 1)

VARIABLES
    sem,       \* SemaphorePrivate objects: init_value, counter, waiters, notified
    calls,     \* per event loop: the callbacks scheduled with callLater
    cur,       \* per event loop: the functor being run (suspended in waiter->yield())
    running,   \* per event loop: the coroutine that has the thread (EventLoop: the loop)
    pc,        \* per coroutine: "ready", "run", "parked", "dead"
    op,        \* per coroutine: the call it is suspended in
    loopOf,    \* per coroutine: its event loop
    rlock,     \* RLockPrivate: holder, counter (its Lock is sem[MainSem])
    saved,     \* per coroutine: the RLockState it got from reset() and still has
    cond,      \* ConditionPrivate objects: waiters, the private Locks in order
    ev,        \* EventPrivate objects: flag, linkTo, linkFrom (Event e owns cond[e])
    setlog,    \* history: what the Event::set() call of the last step did, per Event
    te,        \* ThreadEventPrivate: flag, count, ref, mutex, holds, the sleepers of condition
    tloc,      \* per thread or coroutine in a ThreadEvent call: position and locals
    held,      \* history: per coroutine, acquires that returned true minus its releases
    parkSeq,   \* history: the parked coroutines, in the order in which they parked
    obs        \* history: what the last step did and returned

vars == <<sem, calls, cur, running, pc, op, loopOf, rlock, saved, cond, ev, setlog, te, tloc,
          held, parkSeq, obs>>

\* ------------------------------------------------------------ helpers
Without(q, x) == SelectSeq(q, LAMBDA y : y # x)

Range(q) == {q[k] : k \in 1..Len(q)}

MinOf(S) == CHOOSE x \in S : \A y \in S : x <= y

qMin(a, b) == IF a < b THEN a ELSE b

FreeSem == [used |-> FALSE, live |-> FALSE, init_value |-> 0, counter |-> 0,
            waiters |-> <<>>, notified |-> 0]

NewSem(value) == [used |-> TRUE, live |-> TRUE, init_value |-> value, counter |-> value,
                  waiters |-> <<>>, notified |-> 0]

NoFn == [id |-> 0, sp |-> -1, doDelete |-> FALSE, cond |-> 0]

NoOp == [kind |-> "none", sp |-> -1, blocking |-> FALSE, value |-> 0, i |-> 0, cond |-> 0]

\* shared: the Condition is owned by QSharedPointers and ends with the last.
\* No RLockState.
NoState == [holder |-> -1, counter |-> -1]

NoCond == [live |-> FALSE, waiters |-> <<>>, shared |-> FALSE]

NewCond == [live |-> TRUE, waiters |-> <<>>, shared |-> FALSE]

NewEvent == [flag |-> FALSE, linkTo |-> <<>>, linkFrom |-> <<>>]

\* ThreadEventPrivate::ThreadEventPrivate; mutex: 0 or the thread that holds it.
\* handle: the ThreadEvent object exists; frees: how often the private state
\* was deleted; history: uaf, a step used it after that, and parked, the
\* waiters that were blocked in wait when the destructor began.
NewThreadEvent == [flag |-> FALSE, count |-> 0, ref |-> 1, mutex |-> 0, holds |-> <<>>,
                   sleeping |-> {}, handle |-> TRUE, frees |-> 0, uaf |-> FALSE,
                   parked |-> {}]

\* A thread that is in no ThreadEvent call.
NoCall == [pc |-> "start", f |-> FALSE, itor |-> 0, cond |-> 0, res |-> "none"]

NoSet == [calls |-> 0, flagged |-> [e \in EventIds |-> 0], notified |-> [e \in EventIds |-> 0]]

\* QList::removeOne: the list without the first occurrence of x.
removeOne(q, x) ==
    IF \A k \in 1..Len(q) : q[k] # x
    THEN q
    ELSE LET j == MinOf({k \in 1..Len(q) : q[k] = x})
         IN SubSeq(q, 1, j - 1) \o SubSeq(q, j + 1, Len(q))

Obs(api, co) == [api |-> api, co |-> co, res |-> "none", value |-> 0, i |-> 0,
                 older |-> {}, drained |-> FALSE]

\* The heap the operators below transform.  rv is the value the last callee
\* returned ("true", "false", or "parked": it suspended the coroutine); oom
\* says that the step needs more SemaphorePrivate objects than MaxLocks.
H == [sem |-> sem, calls |-> calls, cur |-> cur, running |-> running, pc |-> pc,
      op |-> op, loopOf |-> loopOf, rlock |-> rlock, saved |-> saved, cond |-> cond, ev |-> ev,
      setlog |-> setlog, te |-> te, tloc |-> tloc, held |-> held, parkSeq |-> parkSeq, obs |-> obs,
      rv |-> "none", ub |-> "benign", oom |-> FALSE]

\* ----------------------------------------------------- the event loop
\* callLater returns an identifier that no scheduled callback and no notified
\* field holds (identifiers are reused once nothing refers to them).
FreshId(h, l) ==
    LET used == {cb.id : cb \in h.calls[l]} \cup {h.sem[s].notified : s \in SemIds}
                \cup {h.cur[l].id}
    IN MinOf({k \in 1..(Cardinality(used) + 1) : k \notin used})

callLater(h, l, sp, doDelete) ==
    [h EXCEPT !.calls[l] = @ \cup {[id |-> FreshId(h, l), sp |-> sp, doDelete |-> doDelete,
                                     cond |-> 0]}]

\* callLaterThreadSafe(0, new NotifiyCondition(condition)) on the event loop l.
callLaterThreadSafe(h, l, k) ==
    [h EXCEPT !.calls[l] = @ \cup {[id |-> FreshId(h, l), sp |-> -1, doDelete |-> FALSE,
                                     cond |-> k]}]

cancelCall(h, l, id) ==
    [h EXCEPT !.calls[l] = {cb \in @ : cb.id # id}]

\* A SemaphorePrivate is freed with the last QSharedPointer to it: the public
\* handle (live) and the functors scheduled or running.
Referenced(h, s) ==
    \/ h.sem[s].live
    \/ \E l \in Loops : h.cur[l].sp = s \/ \E cb \in h.calls[l] : cb.sp = s

Collect(h) ==
    [h EXCEPT !.sem = [s \in SemIds |->
        IF h.sem[s].used /\ ~Referenced(h, s) THEN FreeSem ELSE h.sem[s]]]

\* A shared Condition is deleted with the last QSharedPointer to it: those of
\* holds, of the waiters in wait and of the NotifiyCondition functors.
CondReferenced(h, k) ==
    \/ \E j \in 1..Len(h.te.holds) : h.te.holds[j].condition = k
    \/ \E a \in Threads : h.tloc[a].cond = k
    \/ \E l \in Loops : h.cur[l].cond = k \/ \E cb \in h.calls[l] : cb.cond = k

CollectConds(h) ==
    [h EXCEPT !.cond = [k \in CondIds |->
        IF h.cond[k].shared /\ ~CondReferenced(h, k) THEN NoCond ELSE h.cond[k]]]

\* Mutant: the newest waiter is taken instead of the oldest.
takeLast(q) == [item |-> q[Len(q)], rest |-> SubSeq(q, 1, Len(q) - 1)]

takeFirst(q) == [item |-> Head(q), rest |-> Tail(q)]

\* ------------------------------------------------ Semaphore and Lock
\* The value an API call returns to its caller, who goes on running.
Return(h, c, res) ==
    [h EXCEPT !.obs.res = res, !.op[c] = NoOp, !.pc[c] = "run", !.rv = res]

\* SemaphorePrivate::acquire up to its return or to the yield that parks it.
SemaphorePrivate_acquire(h, s, c, blocking) ==
    IF h.sem[s].counter > 0
    THEN [h EXCEPT !.sem[s].counter = @ - 1, !.rv = "true"]
    ELSE IF ~blocking
         THEN [h EXCEPT !.rv = "false"]
         ELSE [h EXCEPT !.sem[s].waiters = Append(@, c),
                        !.pc[c] = "parked",
                        !.running[h.loopOf[c]] = EventLoop,
                        !.parkSeq = Append(@, c),
                        !.obs.res = "parked",
                        !.rv = "parked"]

\* Mutant: release that raises the counter and schedules no wake.
release_NoWake(h, l, s, value) ==
    IF value <= 0
    THEN h
    ELSE LET c0 == h.sem[s].counter
             c1 == IF c0 > INT_MAX - value THEN INT_MAX ELSE c0 + value
         IN [h EXCEPT !.sem[s].counter = qMin(c1, h.sem[s].init_value)]

\* Mutant: release that schedules a wake although one is pending.
release_AlwaysWake(h, l, s, value) ==
    IF value <= 0
    THEN h
    ELSE LET c0 == h.sem[s].counter
             c1 == IF c0 > INT_MAX - value THEN INT_MAX ELSE c0 + value
             h1 == [h EXCEPT !.sem[s].counter = qMin(c1, h.sem[s].init_value)]
         IN IF h1.sem[s].waiters # <<>>
            THEN [callLater(h1, l, s, FALSE) EXCEPT !.sem[s].notified = FreshId(h1, l)]
            ELSE h1

\* Mutant: release without the clamp to init_value.
release_NoClamp(h, l, s, value) ==
    IF value <= 0
    THEN h
    ELSE LET c0 == h.sem[s].counter
             c1 == IF c0 > INT_MAX - value THEN INT_MAX ELSE c0 + value
             h1 == [h EXCEPT !.sem[s].counter = c1]
         IN IF h1.sem[s].notified = 0 /\ h1.sem[s].waiters # <<>>
            THEN [callLater(h1, l, s, FALSE) EXCEPT !.sem[s].notified = FreshId(h1, l)]
            ELSE h1

SemaphorePrivate_release(h, l, s, value) ==
    IF value <= 0
    THEN h
    ELSE LET c0 == h.sem[s].counter
             c1 == IF c0 > INT_MAX - value THEN INT_MAX ELSE c0 + value
             h1 == [h EXCEPT !.sem[s].counter = qMin(c1, h.sem[s].init_value)]
         IN IF h1.sem[s].notified = 0 /\ h1.sem[s].waiters # <<>>
            THEN [callLater(h1, l, s, FALSE) EXCEPT !.sem[s].notified = FreshId(h1, l)]
            ELSE h1

\* Mutant: scheduleDelete that leaves a pending wake and notified in place.
scheduleDelete_KeepsNotified(h, l, s) ==
    callLater([h EXCEPT !.sem[s].counter = @ + Len(h.sem[s].waiters)], l, s, TRUE)

SemaphorePrivate_scheduleDelete(h, l, s) ==
    LET h1 == IF h.sem[s].notified # 0
              THEN [cancelCall(h, l, h.sem[s].notified) EXCEPT !.sem[s].notified = 0]
              ELSE h
        h2 == [h1 EXCEPT !.sem[s].counter = @ + Len(h.sem[s].waiters)]
    IN callLater(h2, l, s, TRUE)

\* Semaphore::~Semaphore
Semaphore_destroy(h, l, s) ==
    [SemaphorePrivate_scheduleDelete(h, l, s) EXCEPT !.sem[s].live = FALSE]

\* Semaphore::acquire(bool), as its callers inside this file use it: rv is
\* the result, "parked" when the coroutine is suspended in it.
Lock_acquire(h, s, c, blocking) ==
    IF ~h.sem[s].live
    THEN [h EXCEPT !.rv = "false"]
    ELSE SemaphorePrivate_acquire(h, s, c, blocking)

\* Semaphore::acquire(bool), called by a coroutine of the program.
Semaphore_acquire(h, s, c, blocking) ==
    LET h1 == Lock_acquire(h, s, c, blocking)
    IN IF h1.rv = "parked"
       THEN [h1 EXCEPT !.op[c] = [NoOp EXCEPT !.kind = "sem", !.sp = s,
                                              !.blocking = blocking, !.value = 1]]
       ELSE Return(h1, c, h1.rv)

\* Semaphore::acquire(bool) from the return of SemaphorePrivate::acquire,
\* with the tokens of the caller counted.
Semaphore_acquired(h, c, r) ==
    Return([h EXCEPT !.held[c] = IF r THEN @ + 1 ELSE @], c, IF r THEN "true" ELSE "false")

\* Semaphore::acquire(bool) of a coroutine whose tokens are counted.
Semaphore_acquireCounted(h, s, c, blocking) ==
    LET h1 == Lock_acquire(h, s, c, blocking)
    IN IF h1.rv = "parked"
       THEN [h1 EXCEPT !.op[c] = [NoOp EXCEPT !.kind = "counted", !.sp = s,
                                              !.blocking = blocking, !.value = 1]]
       ELSE Semaphore_acquired(h1, c, h1.rv = "true")

\* The loop of Semaphore::acquire(int, bool), entered with i tokens taken.
RECURSIVE acquireLoop(_, _, _, _, _, _)
acquireLoop(h, s, c, value, i, blocking) ==
    IF i >= value
    THEN Return(h, c, "true")
    ELSE LET h1 == SemaphorePrivate_acquire(h, s, c, blocking)
         IN IF h1.rv = "parked"
            THEN [h1 EXCEPT !.op[c] = [NoOp EXCEPT !.kind = "semN", !.sp = s,
                                                   !.blocking = blocking,
                                                   !.value = value, !.i = i]]
            ELSE IF h1.rv = "false"
                 THEN Return(h1, c, "false")
                 ELSE acquireLoop(h1, s, c, value, i + 1, blocking)

\* Mutant: the bound on value is off by one.
acquireN_OffByOne(h, s, c, value, blocking) ==
    IF ~h.sem[s].live
    THEN Return(h, c, "false")
    ELSE IF value > h.sem[s].init_value + 1
         THEN Return(h, c, "false")
         ELSE acquireLoop(h, s, c, value, 0, blocking)

\* Semaphore::acquire(int, bool)
Semaphore_acquireN(h, s, c, value, blocking) ==
    IF ~h.sem[s].live
    THEN Return(h, c, "false")
    ELSE IF value > h.sem[s].init_value
         THEN Return(h, c, "false")
         ELSE acquireLoop(h, s, c, value, 0, blocking)

\* Semaphore::release(int)
Semaphore_release(h, l, s, value) ==
    IF ~h.sem[s].live THEN h ELSE SemaphorePrivate_release(h, l, s, value)

Semaphore_isLocked(h, s) == h.sem[s].live /\ h.sem[s].counter <= 0

Semaphore_isUsed(h, s) == h.sem[s].live /\ h.sem[s].counter < h.sem[s].init_value

Semaphore_getting(h, s) == IF h.sem[s].live THEN Len(h.sem[s].waiters) ELSE 0

\* -------------------------------------------------------------- RLock
\* RLockPrivate::acquire from the return of lock.acquire(blocking).
RLockPrivate_locked(h, c, r) ==
    IF r
    THEN Return([h EXCEPT !.rlock = [holder |-> c, counter |-> 1],
                          !.held[c] = @ + 1], c, "true")
    ELSE Return(h, c, "false")

RLockPrivate_acquire(h, c, blocking) ==
    IF h.rlock.holder = c
    THEN Return([h EXCEPT !.rlock.counter = @ + 1, !.held[c] = @ + 1], c, "true")
    ELSE LET h1 == Lock_acquire(h, MainSem, c, blocking)
         IN IF h1.rv = "parked"
            THEN [h1 EXCEPT !.op[c] = [NoOp EXCEPT !.kind = "rlock", !.sp = MainSem,
                                                   !.blocking = blocking, !.value = 1]]
            ELSE RLockPrivate_locked(h1, c, h1.rv = "true")

\* Mutant: every release releases the Lock, whatever the depth.
RLockPrivate_release_Always(h, c) ==
    IF h.rlock.holder # c
    THEN h
    ELSE Semaphore_release([h EXCEPT !.rlock = [holder |-> 0, counter |-> @.counter - 1]],
                           h.loopOf[c], MainSem, 1)

RLockPrivate_release(h, c) ==
    IF h.rlock.holder # c
    THEN h
    ELSE LET h1 == [h EXCEPT !.rlock.counter = @ - 1] IN
         IF h1.rlock.counter = 0
         THEN Semaphore_release([h1 EXCEPT !.rlock.holder = 0], h.loopOf[c], MainSem, 1)
         ELSE h1

\* RLockPrivate::reset; the caller keeps the RLockState.
RLockPrivate_reset(h, c) ==
    LET state == h.rlock
        h1 == [h EXCEPT !.rlock = [holder |-> 0, counter |-> 0],
                        !.saved[c] = state,
                        !.held = [b \in Coroutines |-> IF b = state.holder THEN 0 ELSE @[b]]]
    IN Return(IF state.counter > 0
              THEN Semaphore_release(h1, h.loopOf[c], MainSem, 1)
              ELSE h1,
              c, "void")

\* RLockPrivate::set from the return of lock.acquire().
RLockPrivate_set_locked(h, c) ==
    Return([h EXCEPT !.held = [b \in Coroutines |->
                                  IF b = h.rlock.holder THEN h.rlock.counter ELSE @[b]]],
           c, "void")

\* RLockPrivate::set with a state the caller got from reset.
RLockPrivate_set(h, c, state) ==
    LET h1 == [h EXCEPT !.rlock = state, !.saved[c] = NoState]
    IN IF h1.rlock.counter > 0
       THEN LET h2 == Lock_acquire(h1, MainSem, c, TRUE)
            IN IF h2.rv = "parked"
               THEN [h2 EXCEPT !.op[c] = [NoOp EXCEPT !.kind = "rset", !.sp = MainSem,
                                                      !.blocking = TRUE, !.value = 1]]
               ELSE RLockPrivate_set_locked(h2, c)
       ELSE Return(h1, c, "void")

RLock_isLocked(h) == Semaphore_isLocked(h, MainSem)

RLock_isOwned(h, c) == h.rlock.holder = c

\* ---------------------------------------------------------- Condition
\* new Lock(): the SemaphorePrivate of a private Lock takes the first free slot.
FreeSlot(h) == MinOf({s \in SemIds : ~h.sem[s].used})

\* A QSharedPointer<Lock> goes out of scope: the Lock is destroyed with the
\* last one (the waiters of a Condition and the waiting coroutine hold one each).
dropLock(h, l, s) ==
    IF \/ \E k \in CondIds : \E j \in 1..Len(h.cond[k].waiters) : h.cond[k].waiters[j] = s
       \/ \E c \in Coroutines : h.op[c].sp = s
    THEN h
    ELSE Semaphore_destroy(h, l, s)

\* d->waiters.removeOne(waiter); d is freed memory once the Condition is
\* destroyed: the access then either goes unnoticed or crashes the program.
Condition_removeOne(h, k, s) ==
    IF h.cond[k].live
    THEN [h EXCEPT !.cond[k].waiters = Without(@, s)]
    ELSE IF h.ub = "crash" THEN [h EXCEPT !.rv = "crash"] ELSE h

\* Condition::wait from the return of the second waiter->acquire().
Condition_woken(h, c, k, s, r) ==
    LET l == h.loopOf[c]
        h1 == IF r THEN Semaphore_release(h, l, s, 1) ELSE h
        h2 == Condition_removeOne([h1 EXCEPT !.rv = IF r THEN "true" ELSE "false"], k, s)
    IN h2

\* Condition::wait when the second waiter->acquire() throws.
Condition_unwound(h, c, k, s) ==
    Condition_removeOne(Semaphore_release(h, h.loopOf[c], s, 1), k, s)

\* Condition::wait up to the yield of the second waiter->acquire(); kind is
\* the caller suspended with it ("cond": the program called wait).
Condition_wait(h, k, c, kind) ==
    IF \A s \in SemIds : h.sem[s].used THEN [h EXCEPT !.oom = TRUE, !.rv = "false"] ELSE
    LET s == FreeSlot(h)
        h1 == Lock_acquire([h EXCEPT !.sem[s] = NewSem(1)], s, c, TRUE)
    IN IF h1.rv # "true"
       THEN [h1 EXCEPT !.rv = "false"]
       ELSE LET h2 == Lock_acquire([h1 EXCEPT !.cond[k].waiters = Append(@, s)], s, c, TRUE)
            IN IF h2.rv = "parked"
               THEN [h2 EXCEPT !.op[c] = [NoOp EXCEPT !.kind = kind, !.sp = s, !.cond = k,
                                                      !.blocking = TRUE, !.value = 1]]
               ELSE Condition_woken(h2, c, k, s, h2.rv = "true")

\* The value wait returns to the program, and the end of its QSharedPointer.
Condition_return(h, c, s) ==
    IF h.rv = "crash"
    THEN [h EXCEPT !.pc[c] = "crashed", !.op[c] = NoOp, !.obs.res = "crash"]
    ELSE dropLock(Return(h, c, h.rv), h.loopOf[c], s)

\* Mutant: notify takes the newest waiters.
Condition_notify_Newest(h, l, k, value, i) ==
    LET RECURSIVE loop(_, _)
        loop(g, j) ==
            IF j < value /\ g.cond[k].waiters # <<>>
            THEN LET t == takeLast(g.cond[k].waiters)
                 IN loop(Semaphore_release([g EXCEPT !.cond[k].waiters = t.rest],
                                           l, t.item, 1), j + 1)
            ELSE g
    IN loop(h, i)

\* Condition::notify: the loop from i.
RECURSIVE Condition_notify(_, _, _, _, _)
Condition_notify(h, l, k, value, i) ==
    IF i < value /\ h.cond[k].waiters # <<>>
    THEN LET t == takeFirst(h.cond[k].waiters)
         IN Condition_notify(Semaphore_release([h EXCEPT !.cond[k].waiters = t.rest],
                                               l, t.item, 1),
                             l, k, value, i + 1)
    ELSE h

Condition_notifyAll(h, l, k) == Condition_notify(h, l, k, Len(h.cond[k].waiters), 0)

\* Condition::~Condition
Condition_destroy(h, l, k) ==
    [Condition_notify(h, l, k, Len(h.cond[k].waiters), 0) EXCEPT !.cond[k] = NoCond]

Condition_getting(h, k) == Len(h.cond[k].waiters)

\* -------------------------------------------------------------- Event
RECURSIVE EventPrivate_set(_, _, _)
RECURSIVE setPeers(_, _, _, _)

\* Mutant: set() that does not go on to the linked Events.
EventPrivate_set_Alone(h, l, e) ==
    LET g == [h EXCEPT !.setlog.calls = @ + 1] IN
    IF ~g.ev[e].flag
    THEN [Condition_notifyAll([g EXCEPT !.ev[e].flag = TRUE, !.setlog.flagged[e] = @ + 1], l, e)
             EXCEPT !.setlog.notified[e] = @ + 1]
    ELSE g

\* EventPrivate::set (Event::set); setlog counts the calls, the flags changed
\* and the notifyAll calls.
EventPrivate_set(h, l, e) ==
    LET g == [h EXCEPT !.setlog.calls = @ + 1] IN
    IF ~g.ev[e].flag
    THEN LET g1 == [g EXCEPT !.ev[e].flag = TRUE, !.setlog.flagged[e] = @ + 1]
             g2 == [Condition_notifyAll(g1, l, e) EXCEPT !.setlog.notified[e] = @ + 1]
         IN setPeers(g2, l, e, 1)
    ELSE g

\* for (Event *other : linkTo) other->set(); from the j-th entry.
setPeers(h, l, e, j) ==
    IF j > Len(h.ev[e].linkTo)
    THEN h
    ELSE setPeers(EventPrivate_set(h, l, h.ev[e].linkTo[j]), l, e, j + 1)

\* EventPrivate::clear
EventPrivate_clear(h, e) == [h EXCEPT !.ev[e].flag = FALSE]

\* Event::link
Event_link(h, e, other) ==
    [h EXCEPT !.ev = [[@ EXCEPT ![e].linkTo = Append(@, other)]
                         EXCEPT ![other].linkFrom = Append(@, e)]]

\* Event::unlink
Event_unlink(h, e, other) ==
    [h EXCEPT !.ev = [[@ EXCEPT ![e].linkTo = removeOne(@, other)]
                         EXCEPT ![other].linkFrom = removeOne(@, e)]]

Event_isSet(h, e) == h.ev[e].flag

\* EventPrivate::wait(true) from the test of its loop.
EventPrivate_waitLoop(h, e, c) ==
    IF ~h.ev[e].flag
    THEN LET h1 == Condition_wait(h, e, c, "event")
         IN IF h1.rv = "parked" THEN h1 ELSE Return(h1, c, "false")
    ELSE Return(h, c, "true")

\* EventPrivate::wait
EventPrivate_wait(h, e, c, blocking) ==
    IF ~blocking
    THEN Return(h, c, IF h.ev[e].flag THEN "true" ELSE "false")
    ELSE EventPrivate_waitLoop(h, e, c)

\* EventPrivate::wait from the return of condition.wait().
EventPrivate_waited(h, e, c, s) ==
    IF h.rv = "crash"
    THEN [h EXCEPT !.pc[c] = "crashed", !.op[c] = NoOp, !.obs.res = "crash"]
    ELSE LET h1 == dropLock([h EXCEPT !.op[c] = NoOp], h.loopOf[c], s)
         IN IF h.rv = "true"
            THEN EventPrivate_waitLoop(h1, e, c)
            ELSE Return(h1, c, "false")

\* -------------------------------------------------------- ThreadEvent
\* currentLoop()->get(): the event loop of the thread of a, 0 if it has none.
currentLoop(h, a) == IF a \in Coroutines THEN h.loopOf[a] ELSE 0

\* The return of ThreadEventPrivate::wait or ThreadEvent::set; a coroutine
\* ends with it and hands the thread to its event loop.
teReturn(h, a, res) ==
    LET h1 == [h EXCEPT !.tloc[a] = [NoCall EXCEPT !.pc = "done", !.res = res]]
    IN IF a \in Coroutines
       THEN [h1 EXCEPT !.pc[a] = "finished", !.running[h.loopOf[a]] = EventLoop]
       ELSE h1

\* ThreadEventPrivate::wait(true), lines 571-574.
ThreadEventPrivate_wait(h, a) ==
    LET f == h.te.flag
    IN IF f
       THEN teReturn(h, a, "true")
       ELSE [h EXCEPT !.tloc[a].f = f, !.tloc[a].pc = "incref"]

\* ThreadEventPrivate::incref
ThreadEventPrivate_incref(h, a) ==
    [h EXCEPT !.te.ref = @ + 1, !.tloc[a].pc = "lock"]

\* mutex.lock() returns
ThreadEventPrivate_locked(h, a) ==
    [h EXCEPT !.te.mutex = a,
              !.tloc[a].pc = IF a = Setter THEN "iter" ELSE "locked",
              !.tloc[a].itor = 1]

\* The Condition that holds has for the event loop l, 0 if none.
holdOf(h, l) ==
    LET S == {j \in 1..Len(h.te.holds) : h.te.holds[j].eventloop = l}
    IN IF S = {} THEN 0 ELSE h.te.holds[MinOf(S)].condition

\* ThreadEventPrivate::wait with the mutex: lines 578-581 of a thread without
\* event loop, lines 588-603 of a coroutine.
ThreadEventPrivate_wait_locked(h, a) ==
    LET current == currentLoop(h, a) IN
    IF current = 0
    THEN [h EXCEPT !.te.count = @ + 1, !.tloc[a].pc = "os_loop"]
    ELSE LET found == holdOf(h, current)
             k == IF found # 0 THEN found ELSE MinOf({j \in CondIds : ~h.cond[j].live})
             h1 == IF found # 0
                   THEN h
                   ELSE [h EXCEPT !.cond[k] = [NewCond EXCEPT !.shared = TRUE],
                                  !.te.holds = Append(@, [eventloop |-> current,
                                                          condition |-> k])]
         IN [h1 EXCEPT !.te.mutex = 0, !.tloc[a].cond = k, !.tloc[a].pc = "co_loop"]

\* The test of the loop of line 582 and, if it holds, condition.wait(&mutex)
\* up to the point where the thread sleeps: the mutex is released with it.
ThreadEventPrivate_wait_os_loop(h, a) ==
    LET f == h.te.flag IN
    IF ~f /\ h.te.ref > 1
    THEN [h EXCEPT !.te.mutex = 0, !.te.sleeping = @ \cup {a},
                   !.tloc[a].f = f, !.tloc[a].pc = "asleep"]
    ELSE [h EXCEPT !.tloc[a].f = f, !.tloc[a].pc = "os_exit"]

\* condition.wait(&mutex) returns: the woken thread has the mutex again.
ThreadEventPrivate_wait_relocked(h, a) ==
    [h EXCEPT !.te.mutex = a, !.tloc[a].pc = "os_loop"]

\* lines 585-586
ThreadEventPrivate_wait_os_exit(h, a) ==
    [h EXCEPT !.te.count = @ - 1, !.te.mutex = 0, !.tloc[a].pc = "decref"]

\* The test of the loop of line 604.
ThreadEventPrivate_wait_co_loop(h, c) ==
    LET f == h.te.flag IN
    [h EXCEPT !.tloc[c].f = f,
              !.tloc[c].pc = IF ~f /\ h.te.ref > 1 THEN "co_wait" ELSE "decref"]

\* condition->wait() of line 606, up to its yield.
ThreadEventPrivate_wait_co_wait(h, c) ==
    LET h1 == Condition_wait([h EXCEPT !.tloc[c].pc = "co_loop"],
                             h.tloc[c].cond, c, "tevent")
    IN IF h1.rv = "parked" THEN h1 ELSE [h1 EXCEPT !.op[c] = NoOp]

\* condition->wait() of line 606 returns; its result is not looked at.
ThreadEventPrivate_wait_co_woken(h, c, s) ==
    IF h.rv = "crash"
    THEN [h EXCEPT !.pc[c] = "crashed", !.op[c] = NoOp, !.obs.res = "crash"]
    ELSE dropLock([h EXCEPT !.op[c] = NoOp, !.obs.res = h.rv], h.loopOf[c], s)

\* ThreadEventPrivate::decref: delete this with the last reference (holds
\* and its QSharedPointers go with it).
decref(h) ==
    IF h.te.ref - 1 = 0
    THEN [h EXCEPT !.te.ref = 0, !.te.frees = @ + 1, !.te.holds = <<>>]
    ELSE [h EXCEPT !.te.ref = @ - 1]

\* ThreadEventPrivate::decref at the end of wait and of notify, and the return.
ThreadEventPrivate_decref(h, a) ==
    teReturn(decref(h), a,
             IF a = Setter THEN "void" ELSE IF h.tloc[a].f THEN "true" ELSE "false")

\* The waiters blocked in wait: asleep in the QWaitCondition or parked in a Condition.
Blocked(h) ==
    {a \in Waiters : \/ h.tloc[a].pc = "asleep"
                     \/ a \in Coroutines /\ h.pc[a] = "parked"}

\* ThreadEvent::~ThreadEvent up to the call of notify, or to its end.
ThreadEvent_destroy(h, a) ==
    LET h1 == decref([h EXCEPT !.te.handle = FALSE,
                               !.te.parked = IF h.te.flag THEN {} ELSE Blocked(h)])
    IN IF h1.te.ref = 0
       THEN teReturn(h1, a, "void")
       ELSE [h1 EXCEPT !.tloc[a].pc = "incref"]

\* ThreadEvent::set, lines 674-677.
ThreadEvent_set(h, a) ==
    IF h.te.flag
    THEN teReturn(h, a, "void")
    ELSE [h EXCEPT !.te.flag = TRUE, !.tloc[a].pc = "incref"]

\* ThreadEventPrivate::notify: one test of the loop of line 547 and its body,
\* or mutex.unlock() after it. Every event loop of the model is alive.
ThreadEventPrivate_notify_iter(h, a) ==
    LET j == h.tloc[a].itor IN
    IF j <= Len(h.te.holds) /\ h.te.ref > 1
    THEN LET hold == h.te.holds[j]
             h1 == IF hold.eventloop = currentLoop(h, a)
                   THEN Condition_notifyAll(h, hold.eventloop, hold.condition)
                   ELSE callLaterThreadSafe(h, hold.eventloop, hold.condition)
         IN [h1 EXCEPT !.tloc[a].itor = j + 1]
    ELSE [h EXCEPT !.te.mutex = 0, !.tloc[a].pc = "wake", !.tloc[a].itor = 0]

\* Mutant: notify without condition.wakeAll().
notify_NoWakeAll(h, a) == [h EXCEPT !.tloc[a].pc = "decref"]

\* ThreadEventPrivate::notify, lines 563-565: wakeAll makes every sleeper
\* compete for the mutex.
ThreadEventPrivate_notify_wake(h, a) ==
    IF h.te.count > 0
    THEN [h EXCEPT !.te.sleeping = {},
                   !.tloc = [b \in Threads |->
                               IF b \in h.te.sleeping THEN [@[b] EXCEPT !.pc = "relock"]
                               ELSE IF b = a THEN [@[b] EXCEPT !.pc = "decref"] ELSE @[b]]]
    ELSE [h EXCEPT !.tloc[a].pc = "decref"]

RECURSIVE gettingOf(_, _)
gettingOf(h, j) ==
    IF j > Len(h.te.holds)
    THEN 0
    ELSE Condition_getting(h, h.te.holds[j].condition) + gettingOf(h, j + 1)

\* ThreadEventPrivate::getting
ThreadEventPrivate_getting(h) == h.te.count + gettingOf(h, 1)

\* NotifiyCondition::operator()
NotifiyCondition(h, l, f) ==
    [Condition_notifyAll(h, l, f.cond) EXCEPT !.cur[l] = NoFn]

\* --------------------------------------------------------------- Gate
\* GatePrivate::lock
GateLock == MainSem

Gate_isOpen(h) == ~Semaphore_isLocked(h, GateLock)

Gate_isClosed(h) == Semaphore_isLocked(h, GateLock)

\* Mutant: the Lock is kept by the coroutine that went through.
Gate_passed_Keep(h, c, r) ==
    Return(h, c, IF r THEN "true" ELSE "false")

\* Gate::goThrough from the return of lock.acquire(blocking).
Gate_passed(h, c, r) ==
    IF ~r
    THEN Return(h, c, "false")
    ELSE Return(Semaphore_release(h, h.loopOf[c], GateLock, 1), c, "true")

\* Gate::goThrough
Gate_goThrough(h, c, blocking) ==
    IF ~Semaphore_isLocked(h, GateLock)
    THEN Return(h, c, "true")
    ELSE LET h1 == Lock_acquire(h, GateLock, c, blocking)
         IN IF h1.rv = "parked"
            THEN [h1 EXCEPT !.op[c] = [NoOp EXCEPT !.kind = "gate", !.sp = GateLock,
                                                   !.blocking = blocking, !.value = 1]]
            ELSE Gate_passed(h1, c, h1.rv = "true")

\* Gate::open
Gate_open(h, c) ==
    IF Semaphore_isLocked(h, GateLock)
    THEN Return(Semaphore_release(h, h.loopOf[c], GateLock, 1), c, "void")
    ELSE Return(h, c, "void")

\* Gate::close
Gate_close(h, c) ==
    IF ~Semaphore_isLocked(h, GateLock)
    THEN LET h1 == Lock_acquire(h, GateLock, c, TRUE)
         IN IF h1.rv = "parked"
            THEN [h1 EXCEPT !.op[c] = [NoOp EXCEPT !.kind = "close", !.sp = GateLock,
                                                   !.blocking = TRUE, !.value = 1]]
            ELSE Return(h1, c, "void")
    ELSE Return(h, c, "void")

\* ------------------------------------- resuming a parked coroutine
\* What the caller of SemaphorePrivate::acquire does with its result r.
afterAcquire(h, c, r) ==
    LET o == h.op[c] IN
    CASE o.kind = "sem" -> Return(h, c, IF r THEN "true" ELSE "false")
      [] o.kind = "counted" -> Semaphore_acquired(h, c, r)
      [] o.kind = "gate" -> Gate_passed(h, c, r)
      [] o.kind = "close" -> Return(h, c, "void")
      [] o.kind = "semN" ->
            IF ~r THEN Return(h, c, "false")
            ELSE acquireLoop(h, o.sp, c, o.value, o.i + 1, o.blocking)
      [] o.kind = "rlock" -> RLockPrivate_locked(h, c, r)
      [] o.kind = "rset" -> RLockPrivate_set_locked(h, c)
      [] o.kind = "cond" -> Condition_return(Condition_woken(h, c, o.cond, o.sp, r), c, o.sp)
      [] o.kind = "tevent" ->
            ThreadEventPrivate_wait_co_woken(Condition_woken(h, c, o.cond, o.sp, r), c, o.sp)
      [] o.kind = "event" ->
            EventPrivate_waited(Condition_woken(h, c, o.cond, o.sp, r), o.cond, c, o.sp)

\* What the callers of SemaphorePrivate::acquire do with an exception.
afterThrow(h, c) ==
    LET o == h.op[c] IN
    CASE o.kind \in {"cond", "event", "tevent"} ->
            LET h1 == Condition_unwound(h, c, o.cond, o.sp) IN
            IF h1.rv = "crash"
            THEN [h1 EXCEPT !.pc[c] = "crashed", !.op[c] = NoOp, !.obs.res = "crash"]
            ELSE dropLock([h1 EXCEPT !.op[c] = NoOp, !.rv = "exc"], h.loopOf[c], o.sp)
      [] OTHER -> [h EXCEPT !.op[c] = NoOp, !.rv = "exc"]

\* The coroutines that parked on the semaphore of c before c and are parked.
Older(h, c) ==
    LET k == CHOOSE j \in 1..Len(h.parkSeq) : h.parkSeq[j] = c
    IN {h.parkSeq[j] : j \in {j \in 1..(k - 1) :
            /\ h.pc[h.parkSeq[j]] = "parked"
            /\ h.op[h.parkSeq[j]].sp = h.op[c].sp}}

\* Whether the primitive the program waits on in c was destroyed.
Destroyed(h, c) ==
    IF h.op[c].cond # 0 THEN ~h.cond[h.op[c].cond].live ELSE ~h.sem[h.op[c].sp].live

\* SemaphorePrivate::acquire from the return of yield(): the coroutine was resumed.
yieldReturn(h, c, doDelete) ==
    LET s == h.op[c].sp
        h1 == [h EXCEPT !.pc[c] = "run",
                        !.running[h.loopOf[c]] = c,
                        !.parkSeq = Without(@, c),
                        !.obs = [Obs("wake", c) EXCEPT !.older = Older(h, c),
                                                       !.drained = Destroyed(h, c),
                                                       !.value = h.op[c].value,
                                                       !.i = h.op[c].i]]
    IN afterAcquire(h1, c, h.sem[s].notified # 0)

\* SemaphorePrivate::acquire when yield() throws: the catch block, and the rethrow.
yieldThrow(h, c) ==
    LET s == h.op[c].sp
        h1 == [h EXCEPT !.sem[s].waiters = Without(@, c),
                        !.pc[c] = "run",
                        !.running[h.loopOf[c]] = c,
                        !.parkSeq = Without(@, c),
                        !.obs = [Obs("cancel", c) EXCEPT !.res = "exc",
                                                         !.value = h.op[c].value,
                                                         !.i = h.op[c].i]]
    IN afterThrow(h1, c)

\* Mutant: the functor resumes a waiter without taking a token for it.
RECURSIVE Functor_NoDecrement(_, _, _)
Functor_NoDecrement(h, l, f) ==
    LET sp == h.sem[f.sp] IN
    IF (sp.notified # 0 \/ f.doDelete) /\ (sp.counter > 0 \/ f.doDelete) /\ sp.waiters # <<>>
    THEN LET t == takeFirst(sp.waiters)
             h1 == [h EXCEPT !.sem[f.sp].waiters = t.rest]
         IN IF h.pc[t.item] = "dead"
            THEN Functor_NoDecrement(h1, l, f)
            ELSE yieldReturn([h1 EXCEPT !.cur[l] = f], t.item, f.doDelete)
    ELSE [h EXCEPT !.sem[f.sp].notified = 0, !.cur[l] = NoFn, !.running[l] = EventLoop]

\* SemaphoreNotifyWaitersFunctor::operator() from the test of its loop, up to
\* the waiter->yield() that hands the thread to a waiter, or to its end.
RECURSIVE SemaphoreNotifyWaitersFunctor(_, _, _)
SemaphoreNotifyWaitersFunctor(h, l, f) ==
    LET sp == h.sem[f.sp] IN
    IF (sp.notified # 0 \/ f.doDelete) /\ (sp.counter > 0 \/ f.doDelete) /\ sp.waiters # <<>>
    THEN LET t == takeFirst(sp.waiters)
             h1 == [h EXCEPT !.sem[f.sp].waiters = t.rest]
         IN IF h.pc[t.item] = "dead"
            THEN SemaphoreNotifyWaitersFunctor(h1, l, f)
            ELSE LET h2 == IF ~f.doDelete
                           THEN [h1 EXCEPT !.sem[f.sp].counter = @ - 1]
                           ELSE h1
                 IN yieldReturn([h2 EXCEPT !.cur[l] = f], t.item, f.doDelete)
    ELSE [h EXCEPT !.sem[f.sp].notified = 0, !.cur[l] = NoFn, !.running[l] = EventLoop]

\* ------------------------------------------------------------ actions
Commit(h0) ==
    LET h == CollectConds(Collect(h0)) IN
    /\ sem' = h.sem
    /\ calls' = h.calls
    /\ cur' = h.cur
    /\ running' = h.running
    /\ pc' = h.pc
    /\ op' = h.op
    /\ loopOf' = h.loopOf
    /\ rlock' = h.rlock
    /\ saved' = h.saved
    /\ ~h.oom
    /\ cond' = h.cond
    /\ ev' = h.ev
    /\ setlog' = h.setlog
    /\ te' = h.te
    /\ tloc' = h.tloc
    /\ held' = h.held
    /\ parkSeq' = h.parkSeq
    /\ obs' = h.obs

Idle(l) == running[l] = EventLoop /\ cur[l] = NoFn

Runs(c) == pc[c] = "run" /\ running[loopOf[c]] = c

\* The event loop starts or resumes a coroutine that waits for nothing here.
Resume(c) ==
    /\ Idle(loopOf[c])
    /\ pc[c] = "ready"
    /\ Commit([H EXCEPT !.pc[c] = "run", !.running[loopOf[c]] = c,
                        !.obs = Obs("resume", c)])

\* The running coroutine finishes, sleeps or waits for something else.
Yield(c) ==
    /\ Runs(c)
    /\ Commit([H EXCEPT !.pc[c] = "ready", !.running[loopOf[c]] = EventLoop,
                        !.obs = Obs("yield", c)])

\* The functor the event loop calls.
Functor(h, l, f) ==
    IF f.cond # 0 THEN NotifiyCondition(h, l, f) ELSE SemaphoreNotifyWaitersFunctor(h, l, f)

\* The event loop runs a scheduled functor.
RunCall(l) ==
    /\ Idle(l)
    /\ \E cb \in calls[l], ub \in UB :
         Commit(Functor([H EXCEPT !.calls[l] = @ \ {cb}, !.cur[l] = cb,
                                  !.obs = Obs("call", 0), !.ub = ub],
                        l, cb))

\* The resumed waiter yielded to the event loop: the functor's loop goes on.
FunctorContinue(l) ==
    /\ running[l] = EventLoop
    /\ cur[l] # NoFn
    /\ \E ub \in UB :
         Commit(SemaphoreNotifyWaitersFunctor([H EXCEPT !.obs = Obs("call", 0), !.ub = ub],
                                              l, cur[l]))

\* The event loop raises an exception in a parked coroutine (kill, timeout).
Kill(c) ==
    /\ Idle(loopOf[c])
    /\ pc[c] = "parked"
    /\ \E ub \in UB : Commit(yieldThrow([H EXCEPT !.ub = ub], c))

\* A parked coroutine is deleted: the QPointer entries of waiters become null.
DeleteCoroutine(c) ==
    /\ pc[c] = "parked"
    /\ Commit([H EXCEPT !.pc[c] = "dead", !.parkSeq = Without(@, c),
                        !.obs = Obs("delete", c)])

SemAcquire(c, blocking) ==
    /\ Runs(c)
    /\ sem[MainSem].live
    /\ Commit(Semaphore_acquire([H EXCEPT !.obs = Obs("acquire", c)], MainSem, c, blocking))

SemAcquireN(c, value, blocking) ==
    /\ Runs(c)
    /\ sem[MainSem].live
    /\ Commit(Semaphore_acquireN(
                  [H EXCEPT !.obs = [Obs("acquireN", c) EXCEPT !.value = value]],
                  MainSem, c, value, blocking))

SemRelease(c, value) ==
    /\ Runs(c)
    /\ sem[MainSem].live
    /\ Commit(Semaphore_release(
                  [H EXCEPT !.obs = [Obs("release", c) EXCEPT !.value = value]],
                  loopOf[c], MainSem, value))

SemDestroy(c) ==
    /\ Runs(c)
    /\ sem[MainSem].live
    /\ Commit(Semaphore_destroy([H EXCEPT !.obs = Obs("destroy", c)], loopOf[c], MainSem))

InitBase ==
    /\ calls = [l \in Loops |-> {}]
    /\ cur = [l \in Loops |-> NoFn]
    /\ running = [l \in Loops |-> EventLoop]
    /\ pc = [c \in Coroutines |-> "ready"]
    /\ op = [c \in Coroutines |-> NoOp]
    /\ loopOf = [c \in Coroutines |-> 1]
    /\ rlock = [holder |-> 0, counter |-> 0]
    /\ saved = [c \in Coroutines |-> NoState]
    /\ ev = [e \in EventIds |-> NewEvent]
    /\ setlog = NoSet
    /\ te = NewThreadEvent
    /\ tloc = [a \in Threads |-> NoCall]
    /\ held = [c \in Coroutines |-> 0]
    /\ parkSeq = <<>>
    /\ obs = Obs("init", 0)

Init ==
    /\ InitBase
    /\ cond = [k \in CondIds |-> NoCond]
    /\ \E value \in 0..MaxInit :
         sem = [s \in SemIds |-> IF s = MainSem THEN NewSem(value) ELSE FreeSem]

Next ==
    \/ \E c \in Coroutines : Resume(c)
    \/ \E c \in Coroutines : Yield(c)
    \/ \E c \in Coroutines : Kill(c)
    \/ \E c \in Coroutines : DeleteCoroutine(c)
    \/ \E l \in Loops : RunCall(l)
    \/ \E l \in Loops : FunctorContinue(l)
    \/ \E c \in Coroutines, blocking \in BOOLEAN : SemAcquire(c, blocking)
    \/ \E c \in Coroutines, value \in AcquireValues, blocking \in BOOLEAN :
         SemAcquireN(c, value, blocking)
    \/ \E c \in Coroutines, value \in ReleaseValues : SemRelease(c, value)
    \/ \E c \in Coroutines : SemDestroy(c)

Spec == Init /\ [][Next]_vars

\* An RLock used with acquire and release only.
RAcquire(c, blocking) ==
    /\ Runs(c)
    /\ rlock.holder = c => rlock.counter < MaxDepth
    /\ Commit(RLockPrivate_acquire([H EXCEPT !.obs = Obs("racquire", c)], c, blocking))

RRelease(c) ==
    /\ Runs(c)
    /\ Commit(RLockPrivate_release(
                  [H EXCEPT !.obs = Obs("rrelease", c),
                            !.held[c] = IF @ > 0 THEN @ - 1 ELSE 0], c))

RLockInit ==
    /\ InitBase
    /\ cond = [k \in CondIds |-> NoCond]
    /\ sem = [s \in SemIds |-> IF s = MainSem THEN NewSem(1) ELSE FreeSem]

RLockNext ==
    \/ \E c \in Coroutines : Resume(c)
    \/ \E c \in Coroutines : Yield(c)
    \/ \E c \in Coroutines : Kill(c)
    \/ \E l \in Loops : RunCall(l)
    \/ \E l \in Loops : FunctorContinue(l)
    \/ \E c \in Coroutines, blocking \in BOOLEAN : RAcquire(c, blocking)
    \/ \E c \in Coroutines : RRelease(c)

RLockSpec == RLockInit /\ [][RLockNext]_vars

\* An RLock used with acquire, release, reset and set: a coroutine calls
\* set with the state its reset returned, and nothing else in between.
RReset(c) ==
    /\ Runs(c)
    /\ saved[c] = NoState
    /\ Commit(RLockPrivate_reset([H EXCEPT !.obs = Obs("reset", c)], c))

RSet(c) ==
    /\ Runs(c)
    /\ saved[c] # NoState
    /\ Commit(RLockPrivate_set([H EXCEPT !.obs = Obs("set", c)], c, saved[c]))

RLockStateNext ==
    \/ \E c \in Coroutines : Resume(c)
    \/ \E c \in Coroutines : Yield(c)
    \/ \E l \in Loops : RunCall(l)
    \/ \E l \in Loops : FunctorContinue(l)
    \/ \E c \in Coroutines : saved[c] = NoState /\ RAcquire(c, TRUE)
    \/ \E c \in Coroutines : saved[c] = NoState /\ RRelease(c)
    \/ \E c \in Coroutines : RReset(c)
    \/ \E c \in Coroutines : RSet(c)

RLockStateSpec == RLockInit /\ [][RLockStateNext]_vars

\* The same, with reset called only by the coroutine that holds the RLock.
RLockTransferNext ==
    \/ \E c \in Coroutines : Resume(c)
    \/ \E c \in Coroutines : Yield(c)
    \/ \E l \in Loops : RunCall(l)
    \/ \E l \in Loops : FunctorContinue(l)
    \/ \E c \in Coroutines : saved[c] = NoState /\ RAcquire(c, TRUE)
    \/ \E c \in Coroutines : saved[c] = NoState /\ RRelease(c)
    \/ \E c \in Coroutines : rlock.holder = c /\ RReset(c)
    \/ \E c \in Coroutines : RSet(c)

RLockTransferSpec == RLockInit /\ [][RLockTransferNext]_vars

\* A Condition used with wait, notify and notifyAll.
CondWait(c) ==
    /\ Runs(c)
    /\ cond[1].live
    /\ \E s \in SemIds : ~sem[s].used
    /\ Commit(Condition_wait([H EXCEPT !.obs = Obs("wait", c)], 1, c, "cond"))

CondNotify(c, value) ==
    /\ Runs(c)
    /\ cond[1].live
    /\ Commit(Condition_notify([H EXCEPT !.obs = [Obs("notify", c) EXCEPT !.value = value]],
                               loopOf[c], 1, value, 0))

CondNotifyAll(c) ==
    /\ Runs(c)
    /\ cond[1].live
    /\ Commit(Condition_notifyAll(
                  [H EXCEPT !.obs = [Obs("notify", c) EXCEPT !.value = Len(cond[1].waiters)]],
                  loopOf[c], 1))

CondDestroy(c) ==
    /\ Runs(c)
    /\ cond[1].live
    /\ Commit(Condition_destroy([H EXCEPT !.obs = Obs("destroy", c)], loopOf[c], 1))

CondInit ==
    /\ InitBase
    /\ sem = [s \in SemIds |-> FreeSem]
    /\ cond = [k \in CondIds |-> IF k = 1 THEN NewCond ELSE NoCond]

CondBase ==
    \/ \E c \in Coroutines : Resume(c)
    \/ \E c \in Coroutines : Yield(c)
    \/ \E l \in Loops : RunCall(l)
    \/ \E l \in Loops : FunctorContinue(l)
    \/ \E c \in Coroutines : CondWait(c)
    \/ \E c \in Coroutines, value \in NotifyValues : CondNotify(c, value)
    \/ \E c \in Coroutines : CondNotifyAll(c)

CondNext == CondBase

CondDestroyNext == CondBase \/ \E c \in Coroutines : CondDestroy(c)

\* Events linked, unlinked, set, cleared and waited for.
RECURSIVE TotalLinks(_)
TotalLinks(S) ==
    IF S = {}
    THEN 0
    ELSE LET e == CHOOSE x \in S : TRUE
         IN Len(ev[e].linkTo) + TotalLinks(S \ {e})

EventLink(c, e, other) ==
    /\ Runs(c)
    /\ TotalLinks(EventIds) < MaxLinks
    /\ Commit(Event_link([H EXCEPT !.obs = [Obs("link", c) EXCEPT !.value = e, !.i = other],
                                   !.setlog = NoSet], e, other))

EventUnlink(c, e, other) ==
    /\ Runs(c)
    /\ Commit(Event_unlink([H EXCEPT !.obs = [Obs("unlink", c) EXCEPT !.value = e, !.i = other],
                                     !.setlog = NoSet], e, other))

EventSet(c, e) ==
    /\ Runs(c)
    /\ Commit(EventPrivate_set([H EXCEPT !.obs = [Obs("set", c) EXCEPT !.value = e],
                                         !.setlog = NoSet], loopOf[c], e))

EventClear(c, e) ==
    /\ Runs(c)
    /\ Commit(EventPrivate_clear([H EXCEPT !.obs = [Obs("clear", c) EXCEPT !.value = e],
                                           !.setlog = NoSet], e))

EventWait(c, e, blocking) ==
    /\ Runs(c)
    /\ Commit(EventPrivate_wait([H EXCEPT !.obs = [Obs("ewait", c) EXCEPT !.value = e],
                                          !.setlog = NoSet], e, c, blocking))

\* Three new Events; coroutine 1 has been started and is running.
EventInit ==
    /\ calls = [l \in Loops |-> {}]
    /\ cur = [l \in Loops |-> NoFn]
    /\ running = [l \in Loops |-> 1]
    /\ pc = [c \in Coroutines |-> IF c = 1 THEN "run" ELSE "ready"]
    /\ op = [c \in Coroutines |-> NoOp]
    /\ loopOf = [c \in Coroutines |-> 1]
    /\ rlock = [holder |-> 0, counter |-> 0]
    /\ saved = [c \in Coroutines |-> NoState]
    /\ ev = [e \in EventIds |-> NewEvent]
    /\ setlog = NoSet
    /\ te = NewThreadEvent
    /\ tloc = [a \in Threads |-> NoCall]
    /\ held = [c \in Coroutines |-> 0]
    /\ parkSeq = <<>>
    /\ obs = Obs("resume", 1)
    /\ sem = [s \in SemIds |-> FreeSem]
    /\ cond = [k \in CondIds |-> NewCond]

\* The running coroutine works on the Events without yielding.
EventNext ==
    \/ \E c \in Coroutines, e \in EventIds, other \in EventIds : EventLink(c, e, other)
    \/ \E c \in Coroutines, e \in EventIds, other \in EventIds : EventUnlink(c, e, other)
    \/ \E c \in Coroutines, e \in EventIds : EventSet(c, e)
    \/ \E c \in Coroutines, e \in EventIds : EventClear(c, e)
    \/ \E c \in Coroutines, e \in EventIds : EventWait(c, e, FALSE)

EventSpec == EventInit /\ [][EventNext]_vars

\* A ThreadEvent: the coroutines of CoWaiters and every thread without event
\* loop call wait(true) once, the thread Setter calls set() once; each step
\* is one access to the memory the threads share.
CanStep(a, at) ==
    /\ tloc[a].pc = at
    /\ a \in Coroutines => Runs(a)

\* One step of a ThreadEvent call, all of which use the private state.
TStep(h) == Commit([h EXCEPT !.obs = Obs("tevent", 0), !.te.uaf = @ \/ te.frees > 0])

TWait(a) ==
    /\ a \in Waiters
    /\ te.handle
    /\ CanStep(a, "start")
    /\ TStep(ThreadEventPrivate_wait(H, a))

TSet(a) ==
    /\ a = Setter
    /\ te.handle
    /\ CanStep(a, "start")
    /\ TStep(ThreadEvent_set(H, a))

TIncref(a) ==
    /\ CanStep(a, "incref")
    /\ TStep(ThreadEventPrivate_incref(H, a))

TLock(a) ==
    /\ CanStep(a, "lock")
    /\ te.mutex = 0
    /\ TStep(ThreadEventPrivate_locked(H, a))

TWaitLocked(a) ==
    /\ CanStep(a, "locked")
    /\ TStep(ThreadEventPrivate_wait_locked(H, a))

TOsLoop(a) ==
    /\ CanStep(a, "os_loop")
    /\ TStep(ThreadEventPrivate_wait_os_loop(H, a))

TRelock(a) ==
    /\ CanStep(a, "relock")
    /\ te.mutex = 0
    /\ TStep(ThreadEventPrivate_wait_relocked(H, a))

TOsExit(a) ==
    /\ CanStep(a, "os_exit")
    /\ TStep(ThreadEventPrivate_wait_os_exit(H, a))

TCoLoop(c) ==
    /\ CanStep(c, "co_loop")
    /\ TStep(ThreadEventPrivate_wait_co_loop(H, c))

TCoWait(c) ==
    /\ CanStep(c, "co_wait")
    /\ TStep(ThreadEventPrivate_wait_co_wait(H, c))

TNotifyIter(a) ==
    /\ CanStep(a, "iter")
    /\ TStep(ThreadEventPrivate_notify_iter(H, a))

TNotifyWake(a) ==
    /\ CanStep(a, "wake")
    /\ TStep(ThreadEventPrivate_notify_wake(H, a))

TDecref(a) ==
    /\ CanStep(a, "decref")
    /\ TStep(ThreadEventPrivate_decref(H, a))

\* The waiting coroutines are on one event loop or on several; the other
\* coroutines have finished.
ThreadEventInit ==
    /\ calls = [l \in Loops |-> {}]
    /\ cur = [l \in Loops |-> NoFn]
    /\ running = [l \in Loops |-> EventLoop]
    /\ pc = [c \in Coroutines |-> IF c \in CoWaiters THEN "ready" ELSE "finished"]
    /\ op = [c \in Coroutines |-> NoOp]
    /\ \E f \in [Coroutines -> Loops] :
         /\ \A c \in Coroutines : (c = 1 \/ c \notin CoWaiters) => f[c] = 1
         /\ loopOf = f
    /\ rlock = [holder |-> 0, counter |-> 0]
    /\ saved = [c \in Coroutines |-> NoState]
    /\ ev = [e \in EventIds |-> NewEvent]
    /\ setlog = NoSet
    /\ te = NewThreadEvent
    /\ tloc = [a \in Threads |-> NoCall]
    /\ held = [c \in Coroutines |-> 0]
    /\ parkSeq = <<>>
    /\ obs = Obs("init", 0)
    /\ sem = [s \in SemIds |-> FreeSem]
    /\ cond = [k \in CondIds |-> NoCond]

ThreadEventNext ==
    \/ \E c \in Coroutines : Resume(c)
    \/ \E l \in Loops : RunCall(l)
    \/ \E l \in Loops : FunctorContinue(l)
    \/ \E a \in Threads : TWait(a)
    \/ \E a \in Threads : TSet(a)
    \/ \E a \in Threads : TIncref(a)
    \/ \E a \in Threads : TLock(a)
    \/ \E a \in Threads : TWaitLocked(a)
    \/ \E a \in Threads : TOsLoop(a)
    \/ \E a \in Threads : TRelock(a)
    \/ \E a \in Threads : TOsExit(a)
    \/ \E a \in Threads : TCoLoop(a)
    \/ \E a \in Threads : TCoWait(a)
    \/ \E a \in Threads : TNotifyIter(a)
    \/ \E a \in Threads : TNotifyWake(a)
    \/ \E a \in Threads : TDecref(a)

ThreadEventSpec == ThreadEventInit /\ [][ThreadEventNext]_vars

\* The thread Setter destroys the ThreadEvent, after its set() or without
\* one, when every call made through it has taken its reference or returned.
TDestroy(a) ==
    /\ a = Setter
    /\ te.handle
    /\ tloc[a].pc \in {"start", "done"}
    /\ \A b \in Waiters : tloc[b].pc # "incref"
    /\ TStep(ThreadEvent_destroy(H, a))

\* A step that uses the deleted private state may end the program instead.
TCrash(a) ==
    /\ te.frees > 0
    /\ tloc[a].pc \notin {"start", "done", "asleep", "crashed"}
    /\ a \in Coroutines => Runs(a)
    /\ TStep([H EXCEPT !.tloc[a].pc = "crashed"])

ThreadEventDestroyNext ==
    \/ ThreadEventNext
    \/ \E a \in Threads : TDestroy(a)
    \/ \E a \in Threads : TCrash(a)

\* One thread and one coroutine wait, on the event loop of the first thread.
ThreadEventDestroyInit ==
    /\ calls = [l \in Loops |-> {}]
    /\ cur = [l \in Loops |-> NoFn]
    /\ running = [l \in Loops |-> EventLoop]
    /\ pc = [c \in Coroutines |-> IF c \in CoWaiters /\ c < NumCoWaiters
                                   THEN "ready" ELSE "finished"]
    /\ op = [c \in Coroutines |-> NoOp]
    /\ loopOf = [c \in Coroutines |-> 1]
    /\ rlock = [holder |-> 0, counter |-> 0]
    /\ saved = [c \in Coroutines |-> NoState]
    /\ ev = [e \in EventIds |-> NewEvent]
    /\ setlog = NoSet
    /\ te = NewThreadEvent
    /\ tloc = [a \in Threads |-> NoCall]
    /\ held = [c \in Coroutines |-> 0]
    /\ parkSeq = <<>>
    /\ obs = Obs("init", 0)
    /\ sem = [s \in SemIds |-> FreeSem]
    /\ cond = [k \in CondIds |-> NoCond]

ThreadEventDestroySpec == ThreadEventDestroyInit /\ [][ThreadEventDestroyNext]_vars

\* A Lock (Semaphore(1)) used with acquire(blocking), release() and destroyed.
LockInit ==
    /\ InitBase
    /\ cond = [k \in CondIds |-> NoCond]
    /\ sem = [s \in SemIds |-> IF s = MainSem THEN NewSem(1) ELSE FreeSem]

LockNext ==
    \/ \E c \in Coroutines : Resume(c)
    \/ \E c \in Coroutines : Yield(c)
    \/ \E c \in Coroutines : Kill(c)
    \/ \E c \in Coroutines : DeleteCoroutine(c)
    \/ \E l \in Loops : RunCall(l)
    \/ \E l \in Loops : FunctorContinue(l)
    \/ \E c \in Coroutines, blocking \in BOOLEAN : SemAcquire(c, blocking)
    \/ \E c \in Coroutines : SemRelease(c, 1)
    \/ \E c \in Coroutines : SemDestroy(c)

\* The event loop runs every scheduled callback in the end, a functor goes on
\* when the coroutine it resumed yields, and a running coroutine yields in the end.
Fairness ==
    /\ \A l \in Loops : SF_vars(RunCall(l)) /\ WF_vars(FunctorContinue(l))
    /\ \A c \in Coroutines : WF_vars(Yield(c))

LockSpec == LockInit /\ [][LockNext]_vars /\ Fairness

\* A Semaphore on which release(1) is only called by a coroutine that holds
\* a token of it.
TokenAcquire(c, blocking) ==
    /\ Runs(c)
    /\ Commit(Semaphore_acquireCounted([H EXCEPT !.obs = Obs("acquire", c)],
                                       MainSem, c, blocking))

TokenRelease(c) ==
    /\ Runs(c)
    /\ held[c] > 0
    /\ Commit(Return(Semaphore_release([H EXCEPT !.obs = [Obs("release", c) EXCEPT !.value = 1],
                                                 !.held[c] = @ - 1],
                                       loopOf[c], MainSem, 1),
                     c, "void"))

TokenNext ==
    \/ \E c \in Coroutines : Resume(c)
    \/ \E c \in Coroutines : Yield(c)
    \/ \E c \in Coroutines : Kill(c)
    \/ \E c \in Coroutines : DeleteCoroutine(c)
    \/ \E l \in Loops : RunCall(l)
    \/ \E l \in Loops : FunctorContinue(l)
    \/ \E c \in Coroutines, blocking \in BOOLEAN : TokenAcquire(c, blocking)
    \/ \E c \in Coroutines : TokenRelease(c)

TokenSpec == Init /\ [][TokenNext]_vars

\* A Gate that coroutines of one event loop open, close and go through.
GoThrough(c, blocking) ==
    /\ Runs(c)
    /\ Commit(Gate_goThrough([H EXCEPT !.obs = [Obs("goThrough", c) EXCEPT
                                                   !.value = IF blocking THEN 1 ELSE 0]],
                             c, blocking))

GateOpen(c) ==
    /\ Runs(c)
    /\ Commit(Gate_open([H EXCEPT !.obs = Obs("open", c)], c))

GateClose(c) ==
    /\ Runs(c)
    /\ Commit(Gate_close([H EXCEPT !.obs = Obs("close", c)], c))

GateNext ==
    \/ \E c \in Coroutines : Resume(c)
    \/ \E c \in Coroutines : Yield(c)
    \/ \E l \in Loops : RunCall(l)
    \/ \E l \in Loops : FunctorContinue(l)
    \/ \E c \in Coroutines, blocking \in BOOLEAN : GoThrough(c, blocking)
    \/ \E c \in Coroutines : GateOpen(c)
    \/ \E c \in Coroutines : GateClose(c)

GateSpec == LockInit /\ [][GateNext]_vars /\ Fairness

CondSpec == CondInit /\ [][CondNext]_vars

CondDestroySpec == CondInit /\ [][CondDestroyNext]_vars

\* The coroutines parked in wait whose private Lock a notify has released.
Released ==
    {c \in Coroutines : pc[c] = "parked" /\ op[c].kind = "cond" /\ sem[op[c].sp].counter > 0}

\* A Condition whose parked waiters may be cancelled; wait is called when no
\* released waiter is still parked, so the waiters that no notify has reached
\* were all parked before the notify that released those.
CondCancelNext ==
    \/ \E c \in Coroutines : Resume(c)
    \/ \E c \in Coroutines : Yield(c)
    \/ \E c \in Coroutines : Kill(c)
    \/ \E l \in Loops : RunCall(l)
    \/ \E l \in Loops : FunctorContinue(l)
    \/ \E c \in Coroutines : Released = {} /\ CondWait(c)
    \/ \E c \in Coroutines, value \in NotifyValues : CondNotify(c, value)
    \/ \E c \in Coroutines : CondNotifyAll(c)

CondCancelSpec == CondInit /\ [][CondCancelNext]_vars

\* ------------------------------------------------------------- claims
\* C1: a live Semaphore has 0 <= counter <= init_value in every state a
\* coroutine or the event loop can observe, whatever acquire, release(n),
\* cancellations and wake callbacks ran.
C1_CounterInRange ==
    sem[MainSem].live =>
        /\ 0 <= sem[MainSem].counter
        /\ sem[MainSem].counter <= sem[MainSem].init_value

\* C1 witness: release(INT_MAX) ran with coroutines parked and left the counter
\* at init_value.
C1_Witness ==
    /\ obs.api = "release"
    /\ obs.value = INT_MAX
    /\ sem[MainSem].waiters # <<>>
    /\ sem[MainSem].init_value = MaxInit
    /\ sem[MainSem].counter = sem[MainSem].init_value

\* C2: a coroutine is resumed from a Semaphore only when no coroutine that
\* parked on it earlier is still parked (resumption in the order of parking).
C2_FifoResume ==
    obs.api = "wake" => obs.older = {}

\* C2 witness: a coroutine was resumed by the wake callback while a coroutine
\* that parked after it stays parked.
C2_Witness ==
    /\ obs.api = "wake"
    /\ ~obs.drained
    /\ obs.res = "true"
    /\ sem[MainSem].waiters # <<>>
    /\ \E c \in Coroutines : pc[c] = "parked"

\* C3 (as claimed): when an exception leaves a blocking acquire, the cancelled
\* coroutine is not in waiters and the call has consumed no token.
C3_CancelLeavesNoTrace ==
    obs.api = "cancel" =>
        /\ \A k \in 1..Len(sem[MainSem].waiters) : sem[MainSem].waiters[k] # obs.co
        /\ obs.i = 0

\* C3, the part that holds: the cancelled coroutine is not in waiters, and the
\* cancellation itself changes neither counter nor notified.
C3_CancelStep ==
    [][obs'.api = "cancel" =>
          /\ sem'[MainSem].waiters = Without(sem[MainSem].waiters, obs'.co)
          /\ sem'[MainSem].counter = sem[MainSem].counter
          /\ sem'[MainSem].notified = sem[MainSem].notified
          /\ calls' = calls]_vars

\* C4: a coroutine resumed after its Semaphore was destroyed is resumed in the
\* order of parking and its acquire returns false; and every coroutine parked
\* on a destroyed Semaphore is resumed in the end.
C4_DestroyDrains ==
    /\ [](obs.api = "wake" /\ obs.drained => obs.res = "false" /\ obs.older = {})
    /\ (~sem[MainSem].live) ~> (\A c \in Coroutines : pc[c] # "parked")

\* C4 witness: the drain callback resumed a coroutine parked at destruction,
\* its acquire returned false, and another one is still to be resumed.
C4_Witness ==
    /\ obs.api = "wake"
    /\ obs.drained
    /\ obs.res = "false"
    /\ cur[1].doDelete
    /\ sem[MainSem].waiters # <<>>

\* C5: acquire(n, blocking) with n > init_value returns false at once and
\* changes nothing: not counter, not waiters, no coroutine is suspended.
C5_OverInitRejected ==
    [][(obs'.api = "acquireN" /\ obs'.value > sem[MainSem].init_value) =>
          /\ obs'.res = "false"
          /\ sem' = sem
          /\ calls' = calls
          /\ pc' = pc
          /\ running' = running]_vars

\* C5 witness: acquire(init_value + 1) was refused while a coroutine is parked.
C5_Witness ==
    /\ obs.api = "acquireN"
    /\ obs.value = sem[MainSem].init_value + 1
    /\ obs.res = "false"
    /\ sem[MainSem].waiters # <<>>

\* C6: while a coroutine has acquired the RLock more often than it released
\* it, no other coroutine has (no acquire of another returned true), holder
\* and counter are that coroutine and its depth and the Lock is held; and a
\* parked coroutine whose acquire returns true has counter = 1 and is holder.
C6_RLockDepth ==
    /\ \A a \in Coroutines :
         held[a] >= 1 =>
            /\ \A b \in Coroutines \ {a} : held[b] = 0
            /\ rlock.holder = a
            /\ rlock.counter = held[a]
            /\ sem[MainSem].counter = 0
    /\ (obs.api = "wake" /\ obs.res = "true") =>
            /\ rlock.holder = obs.co
            /\ rlock.counter = 1
            /\ held[obs.co] = 1
    /\ (obs.api = "racquire" /\ obs.res = "true") => rlock.holder = obs.co

\* C6 witness: A acquired MaxDepth times and released once; B is still parked.
C6_Witness ==
    /\ obs.api = "rrelease"
    /\ held[obs.co] = MaxDepth - 1
    /\ rlock.counter = MaxDepth - 1
    /\ \E b \in Coroutines : pc[b] = "parked" /\ op[b].kind = "rlock"

\* The coroutines parked in wait that no notify has reached, oldest first:
\* their private Lock was not released.
Unnotified(ps, p, o, sm) ==
    SelectSeq(ps, LAMBDA c : p[c] = "parked" /\ o[c].kind = "cond" /\ sm[o[c].sp].counter = 0)

\* C7: notify(n) with m waiters no notify has reached releases exactly the
\* min(n, m) oldest of them (in the order of their wait calls) and leaves the
\* others as they are; a waiter leaves wait only after a notify released it,
\* and then with true; and the wake-up of every released waiter is scheduled
\* on its event loop and makes it leave wait when it runs. notifyAll is
\* notify(m).
C7_NotifyWakesOldest ==
    /\ [][obs'.api = "notify" =>
            LET W == Unnotified(parkSeq, pc, op, sem)
                n == qMin(obs'.value, Len(W))
            IN /\ Unnotified(parkSeq', pc', op', sem') = SubSeq(W, n + 1, Len(W))
               /\ \A j \in 1..n :
                     /\ pc'[W[j]] = "parked"
                     /\ sem'[op[W[j]].sp].counter = 1
                     /\ sem'[op[W[j]].sp].notified # 0]_vars
    /\ [][\A c \in Coroutines :
            (pc[c] = "parked" /\ pc'[c] # "parked") =>
                /\ sem[op[c].sp].counter = 1
                /\ obs'.api = "wake" /\ obs'.co = c /\ obs'.res = "true"]_vars
    /\ [][\A c \in Coroutines :
            (pc[c] = "parked" /\ sem[op[c].sp].counter = 1) =>
                LET Wake == {cb \in calls[loopOf[c]] : cb.sp = op[c].sp /\ ~cb.doDelete}
                IN /\ Wake # {}
                   /\ \A cb \in Wake : cb.id = sem[op[c].sp].notified
                   /\ (Wake \cap calls'[loopOf[c]] = {}) => pc'[c] # "parked"]_vars

\* C7 witness: notify(1) ran with two waiters; the older one is released and
\* still parked, the newer one is still waiting for a notify.
C7_Witness ==
    /\ obs.api = "notify"
    /\ obs.value = 1
    /\ Len(parkSeq) = 2
    /\ Unnotified(parkSeq, pc, op, sem) = <<parkSeq[2]>>
    /\ sem[op[parkSeq[1]].sp].counter = 1

\* C8 (as claimed): a coroutine that was parked in wait when its Condition was
\* destroyed returns false from wait.
C8_DestroyedWaitReturnsFalse ==
    (obs.api = "wake" /\ obs.drained) => obs.res = "false"

\* The Events reachable from those of S through link_to, going on only
\* through Events of ok.
RECURSIVE Reachable(_, _)
Reachable(S, ok) ==
    LET T == S \cup {y \in ok : \E x \in S : \E j \in 1..Len(ev[x].linkTo) : ev[x].linkTo[j] = y}
    IN IF T = S THEN S ELSE Reachable(T, ok)

\* The number of set() calls that set() on e makes when it changes the flags of R.
RECURSIVE CallsFrom(_)
CallsFrom(R) ==
    IF R = {}
    THEN 0
    ELSE LET x == CHOOSE x \in R : TRUE
         IN Len(ev[x].linkTo) + CallsFrom(R \ {x})

\* C9 (as claimed): after set() on an unset Event every Event reachable from
\* it through link_to has flag = true.
C9_AllReachableSet ==
    [][(obs'.api = "set" /\ ~ev[obs'.value].flag) =>
            \A r \in Reachable({obs'.value}, EventIds) : ev'[r].flag]_vars

\* C9 (amended): set() on an unset Event e returns after one call for e and
\* one per link of the Events it changes; R, the Events reachable from e
\* through Events that were unset at the call, have flag = true, each with one
\* change of flag and one notifyAll; every other Event is unchanged and not
\* notified; the links are unchanged. set() on a set Event changes nothing.
C9_SetPropagates ==
    [][obs'.api = "set" =>
            LET e == obs'.value
                R == IF ev[e].flag THEN {} ELSE Reachable({e}, {x \in EventIds : ~ev[x].flag})
            IN /\ \A x \in EventIds :
                     /\ ev'[x].flag = (ev[x].flag \/ x \in R)
                     /\ setlog'.flagged[x] = (IF x \in R THEN 1 ELSE 0)
                     /\ setlog'.notified[x] = (IF x \in R THEN 1 ELSE 0)
                     /\ ev'[x].linkTo = ev[x].linkTo
                     /\ ev'[x].linkFrom = ev[x].linkFrom
               /\ setlog'.calls = 1 + CallsFrom(R)
               /\ ev[e].flag => (ev' = ev /\ cond' = cond /\ sem' = sem /\ calls' = calls)]_vars

\* C9 witness: set() on Event 1 of the graph 1 -> 2, 2 -> 1, 2 -> 3, all unset:
\* four calls, every flag changed once.
C9_Witness ==
    /\ obs.api = "set"
    /\ obs.value = 1
    /\ ev[1].linkTo = <<2>>
    /\ ev[2].linkTo = <<1, 3>>
    /\ setlog.calls = 4
    /\ \A x \in EventIds : ev[x].flag /\ setlog.flagged[x] = 1 /\ setlog.notified[x] = 1

\* A measure of the work left in a ThreadEvent run: the steps each thread has
\* before it, and one per scheduled or running functor.
RankOf(a) ==
    LET at == tloc[a].pc IN
    IF a \in Coroutines /\ pc[a] = "finished" THEN 0
    ELSE IF a \in Coroutines /\ pc[a] = "ready" THEN 14
    ELSE IF a \in Coroutines /\ pc[a] = "parked"
         THEN (IF sem[op[a].sp].counter = 0 THEN 7 ELSE 6)
    ELSE CASE at = "start" -> 13 + (IF a = Setter THEN 2 * NumLoops + 7 ELSE 0)
           [] at = "incref" -> 12 + (IF a = Setter THEN 2 * NumLoops + 7 ELSE 0)
           [] at = "lock" -> 11 + (IF a = Setter THEN 2 * NumLoops + 7 ELSE 0)
           [] at = "locked" -> 10
           [] at = "iter" -> 4 + 2 * (Len(te.holds) + 1 - tloc[a].itor)
           [] at = "wake" -> 3
           [] at \in {"os_loop", "co_loop"} -> IF te.flag THEN 4 ELSE 9
           [] at = "co_wait" -> 8
           [] at = "asleep" -> 7
           [] at = "relock" -> 6
           [] at = "os_exit" -> 3
           [] at = "decref" -> 2
           [] at = "done" -> 0

RECURSIVE RankSum(_)
RankSum(S) ==
    IF S = {}
    THEN 0
    ELSE LET a == CHOOSE x \in S : TRUE IN RankOf(a) + RankSum(S \ {a})

RECURSIVE FunctorsLeft(_)
FunctorsLeft(L) ==
    IF L = {}
    THEN 0
    ELSE LET l == CHOOSE x \in L : TRUE
         IN Cardinality(calls[l]) + (IF cur[l] # NoFn THEN 1 ELSE 0) + FunctorsLeft(L \ {l})

Rank == RankSum(Threads) + FunctorsLeft(Loops)

\* Some step of ThreadEventNext is possible: the guards of its actions.
CanGoOn ==
    \/ \E c \in Coroutines : Idle(loopOf[c]) /\ pc[c] = "ready"
    \/ \E l \in Loops : Idle(l) /\ calls[l] # {}
    \/ \E l \in Loops : running[l] = EventLoop /\ cur[l] # NoFn
    \/ \E a \in Threads :
         /\ a \in Coroutines => Runs(a)
         /\ \/ tloc[a].pc \in {"start", "incref", "locked", "os_loop", "os_exit", "co_loop",
                                "iter", "wake", "decref"}
            \/ tloc[a].pc \in {"lock", "relock"} /\ te.mutex = 0
            \/ tloc[a].pc = "co_wait" /\ \E s \in SemIds : ~sem[s].used

\* C10: wait(true) calls of coroutines on one or several event loops and of a
\* thread without event loop, and one set() from another thread, in every
\* interleaving: every step lowers Rank, so the run ends; when no thread and
\* no event loop can take a step every wait has returned; a wait that has
\* returned has returned true; and once all have returned getting() is 0.
C10_NoLostWakeup ==
    /\ [][Rank' < Rank]_vars
    /\ [](~CanGoOn => \A a \in Waiters : tloc[a].pc = "done")
    /\ [](\A a \in Waiters : tloc[a].pc = "done" => tloc[a].res = "true")
    /\ []((\A a \in Waiters : tloc[a].pc = "done") => ThreadEventPrivate_getting(H) = 0)

\* C10 witness: set() has woken the thread that slept in wait, and a
\* coroutine parked in wait was resumed with true by its event loop.
C10_Witness ==
    /\ te.flag
    /\ \E a \in OsWaiters : tloc[a].pc = "relock"
    /\ obs.api = "wake"
    /\ obs.co \in CoWaiters
    /\ obs.res = "true"
    /\ \E c \in CoWaiters : pc[c] = "parked"


\* C11: when the ThreadEvent is destroyed while waiters woken by set() are
\* leaving wait, the private state is deleted at most once and no step of
\* the destructor, of notify or of wait uses it after the deletion.
C11_DestroyedOnceAfterLastUse == te.flag => ~te.uaf /\ te.frees <= 1


\* Some step of ThreadEventDestroyNext is possible: the guards of its actions.
CanGoOnDestroy ==
    \/ \E c \in Coroutines : Idle(loopOf[c]) /\ pc[c] = "ready"
    \/ \E l \in Loops : Idle(l) /\ calls[l] # {}
    \/ \E l \in Loops : running[l] = EventLoop /\ cur[l] # NoFn
    \/ \E a \in Threads :
         /\ a \in Coroutines => Runs(a)
         /\ \/ tloc[a].pc \in {"incref", "locked", "os_loop", "os_exit", "co_loop",
                                "iter", "wake", "decref"}
            \/ tloc[a].pc \in {"lock", "relock"} /\ te.mutex = 0
            \/ tloc[a].pc = "co_wait" /\ \E s \in SemIds : ~sem[s].used
            \/ tloc[a].pc = "start" /\ te.handle
            \/ /\ a = Setter
               /\ te.handle
               /\ tloc[a].pc = "done"
               /\ \A b \in Waiters : tloc[b].pc # "incref"
            \/ te.frees > 0 /\ tloc[a].pc \notin {"start", "done", "asleep", "crashed"}

\* C12: the ThreadEvent is destroyed with its flag unset while waiters are
\* blocked in wait(true): when no thread and no event loop can take a step
\* any more, each of these waiters has returned from wait and the reference
\* count is zero.
C12_DestroyReleasesWaiters ==
    (~CanGoOnDestroy /\ ~te.handle /\ ~te.flag /\ ~te.uaf /\ te.parked # {})
        => /\ \A a \in te.parked : tloc[a].pc = "done"
           /\ te.ref = 0


\* Gate::isOpen as a coroutine would see it in this state.
isOpen == Gate_isOpen(H)

\* C13: close() returns to its caller without suspending it and leaves the
\* Gate closed; goThrough on a closed Gate parks a blocking caller and
\* returns false to a non-blocking one; open() leaves the Gate open and an
\* open Gate stays open through every step but close(), the resuming of
\* parked coroutines included; a coroutine resumed in goThrough gets true;
\* and a coroutine parked in goThrough of an open Gate leaves it unless
\* close() is called.
C13_GateBarrier ==
    /\ [](obs.api = "close" => Runs(obs.co) /\ ~isOpen)
    /\ [][(obs'.api = "goThrough" /\ ~isOpen) =>
            IF obs'.value = 1
            THEN pc'[obs'.co] = "parked" /\ running'[loopOf[obs'.co]] = EventLoop
            ELSE pc'[obs'.co] = "run" /\ obs'.res = "false"]_vars
    /\ [](obs.api = "open" => isOpen)
    /\ [][(isOpen /\ obs'.api # "close") => isOpen']_vars
    /\ [](obs.api = "wake" => obs.res = "true")
    /\ \A c \in Coroutines :
         (pc[c] = "parked" /\ isOpen) ~> (pc[c] # "parked" \/ obs.api = "close")

\* C13 witness: the Gate was closed, two coroutines parked in goThrough,
\* open() was called, and the first of them has returned true while the other
\* is still parked and the Gate is open.
C13_Witness ==
    /\ obs.api = "wake"
    /\ obs.res = "true"
    /\ isOpen
    /\ \E c \in Coroutines : pc[c] = "parked" /\ op[c].kind = "gate"
    /\ cur[loopOf[obs.co]] # NoFn


\* The coroutines parked in the waiters of the Semaphore.
ParkedOn(s) ==
    {w \in Coroutines : /\ pc[w] = "parked"
                        /\ \E j \in 1..Len(sem[s].waiters) : sem[s].waiters[j] = w}

\* C14: a token that release makes available while coroutines are parked
\* goes to the oldest of them: no acquire(blocking) call takes a token
\* while a coroutine is parked on the Semaphore.
C14_NoBarging ==
    [][(obs'.api = "acquire" /\ obs'.res = "true") => ParkedOn(MainSem) = {}]_vars


\* The callbacks of the Semaphore that are scheduled or running.
Outstanding(s) ==
    {cb \in UNION {calls[l] : l \in Loops} : cb.sp = s}
        \cup {cur[l] : l \in {l \in Loops : cur[l].sp = s}}

\* C15: on a live Semaphore with no wake pending or running (notified = 0)
\* a non-empty waiters queue implies counter = 0; and when counter > 0 and a
\* coroutine is parked, notified names a wake callback that is scheduled or
\* running.
C15_NoLostWakeup ==
    sem[MainSem].live =>
        /\ (sem[MainSem].notified = 0 /\ sem[MainSem].waiters # <<>>)
               => sem[MainSem].counter = 0
        /\ (sem[MainSem].counter > 0 /\ ParkedOn(MainSem) # {})
               => \E cb \in Outstanding(MainSem) :
                      cb.id = sem[MainSem].notified /\ ~cb.doDelete

\* C15 witness: a wake callback has ended with coroutines still parked, since
\* the tokens ran out; and another state has a token and a parked coroutine.
C15_Witness ==
    /\ obs.api = "call"
    /\ sem[MainSem].live
    /\ sem[MainSem].notified = 0
    /\ Outstanding(MainSem) = {}
    /\ ParkedOn(MainSem) # {}
    /\ sem[MainSem].counter = 0


\* The callbacks of the Semaphore that are scheduled and have not started.
Scheduled(s) == {cb \in UNION {calls[l] : l \in Loops} : cb.sp = s}

\* C16 as stated: at most one wake or drain callback of the Semaphore is
\* scheduled or running at any time.
C16_OneCallback == Cardinality(Outstanding(MainSem)) <= 1

\* C16: at most one callback of the Semaphore is scheduled at any time; a
\* live Semaphore has at most one scheduled or running, the wake callback
\* that notified names; and a second one exists only as the drain callback
\* scheduled by a destruction that a waiter performed while the wake
\* callback that resumed it was still running, with notified cleared.
C16_OneScheduled ==
    /\ Cardinality(Scheduled(MainSem)) <= 1
    /\ sem[MainSem].live =>
          /\ Cardinality(Outstanding(MainSem)) <= 1
          /\ \A cb \in Outstanding(MainSem) :
                cb.id = sem[MainSem].notified /\ ~cb.doDelete
    /\ Cardinality(Outstanding(MainSem)) > 1 =>
          /\ Cardinality(Outstanding(MainSem)) = 2
          /\ sem[MainSem].notified = 0
          /\ \E l \in Loops : cur[l].sp = MainSem /\ ~cur[l].doDelete
          /\ \A cb \in Scheduled(MainSem) : cb.doDelete

\* C16 witness: a waiter resumed by the wake callback called release with
\* coroutines still parked, and no second callback was scheduled.
C16_Witness ==
    /\ obs.api = "release"
    /\ sem[MainSem].live
    /\ sem[MainSem].counter > 0
    /\ ParkedOn(MainSem) # {}
    /\ \E l \in Loops : cur[l].sp = MainSem
    /\ Cardinality(Outstanding(MainSem)) = 1


\* C17: in every state of an RLock used with acquire, release, reset and
\* set(state): counter > 0 iff holder # 0 iff the inner Lock is held.
C17_RLockConsistent ==
    /\ (rlock.counter > 0) <=> (rlock.holder # 0)
    /\ (rlock.holder # 0) <=> RLock_isLocked(H)


\* C18: a coroutine that holds the RLock calls reset() and later set(state);
\* when another coroutine that acquired the RLock in between has released it
\* as often as it acquired it, the inner Lock is released.
C18_ReleaseTakesEffect ==
    [][(obs'.api = "rrelease" /\ held[obs'.co] = 1) => sem'[MainSem].counter = 1]_vars


\* C19: a coroutine parked in Condition::wait is cancelled: its private Lock
\* is not in waiters afterwards, and if a notify had already taken it from
\* waiters and released its Lock while other waiters are parked that no
\* notify has reached, the notification goes to one of them.
C19_CancelConsumesNothing ==
    [][(obs'.api = "cancel" /\ op[obs'.co].kind = "cond") =>
          LET c == obs'.co IN
          /\ \A j \in 1..Len(cond'[1].waiters) : cond'[1].waiters[j] # op[c].sp
          /\ (sem[op[c].sp].counter > 0 /\ Unnotified(parkSeq, pc, op, sem) # <<>>)
                => Len(Unnotified(parkSeq', pc', op', sem'))
                       < Len(Unnotified(parkSeq, pc, op, sem))]_vars


\* The tokens the coroutines of S hold.
RECURSIVE HeldSum(_)
HeldSum(S) ==
    IF S = {}
    THEN 0
    ELSE LET c == CHOOSE x \in S : TRUE IN held[c] + HeldSum(S \ {c})

\* C20: an acquire that returns true, at once or after parking, has lowered
\* counter by one; an acquire that returns false or is cancelled has left it
\* as it was; so when release(1) is only called by holders of a token,
\* counter plus the tokens held is init_value in every state, and a Lock is
\* held by at most one coroutine at a time.
C20_TokenConservation ==
    /\ [](sem[MainSem].counter + HeldSum(Coroutines) = sem[MainSem].init_value)
    /\ [](sem[MainSem].init_value = 1 => Cardinality({c \in Coroutines : held[c] > 0}) <= 1)
    /\ [][(obs'.api \in {"acquire", "wake"} /\ obs'.res = "true") =>
            /\ sem'[MainSem].counter = sem[MainSem].counter - 1
            /\ held' = [held EXCEPT ![obs'.co] = @ + 1]]_vars
    /\ [][((obs'.api = "acquire" /\ obs'.res = "false") \/ obs'.api = "cancel") =>
            /\ sem'[MainSem].counter = sem[MainSem].counter
            /\ held' = held]_vars

\* C20 witness: the wake callback gave the token of a Lock to a parked
\* coroutine, which now holds it alone while another coroutine is parked.
C20_Witness ==
    /\ obs.api = "wake"
    /\ obs.res = "true"
    /\ sem[MainSem].init_value = 1
    /\ sem[MainSem].counter = 0
    /\ held[obs.co] = 1
    /\ ParkedOn(MainSem) # {}

====
